---- MODULE Spec2Model ----
(***************************************************************************)
(* A model of the log-header parsers of the byteview repository:           *)
(*   - examples/log/log_byteview.rs : Header::split_slice and accessors    *)
(*   - examples/log/log_zerocopy.rs : Header::try_ref_from_prefix,         *)
(*                                    HeaderStart::fields_from_prefix      *)
(*   - tests/entry.rs               : EntryHeaderRef / EntryHeaderOwned    *)
(* A byte is a number in 0..255, a buffer a sequence of bytes, a borrowed  *)
(* slice a (ptr, len) pair into the buffer it borrows from.                *)
(***************************************************************************)
EXTENDS Integers, Sequences, FiniteSets

VARIABLES buf, entry, pc, zc, bv, et

vars == <<buf, entry, pc, zc, bv, et>>

------------------------------------------------------------------------------
(* Bounds of the model                                                      *)

MaxFields == 3
MaxNameLen == 3

------------------------------------------------------------------------------
(* Layout                                                                   *)

NameLen == 32
EntryNameLen == 16
U32Len == 4
HeaderStartNumBytes == NameLen + U32Len + U32Len + 1 + 1
FieldDefinitionNumBytes == NameLen + 1 + 1
EntryHeaderNumBytes == U32Len + 1 + 1 + EntryNameLen

Byte == 0..255

------------------------------------------------------------------------------
(* Option / Result values                                                   *)

None == [tag |-> "None"]
Some(v) == [tag |-> "Some", val |-> v]
Ok(v) == [tag |-> "Ok", val |-> v]
Err(e) == [tag |-> "Err", err |-> e]
IsSome(o) == o.tag = "Some"
IsOk(r) == r.tag = "Ok"
IsErr(r) == r.tag = "Err"

------------------------------------------------------------------------------
(* Slices: &[u8] borrowed from a buffer                                     *)

Slice(p, l) == [ptr |-> p, len |-> l]
Deref(b, s) == SubSeq(b, s.ptr + 1, s.ptr + s.len)
SplitAt(s, k) == <<Slice(s.ptr, k), Slice(s.ptr + k, s.len - k)>>

------------------------------------------------------------------------------
(* Bit operations on u8                                                     *)

RECURSIVE Shr(_, _)
Shr(b, k) == IF k = 0 THEN b ELSE Shr(b \div 2, k - 1)

RECURSIVE BitAnd(_, _)
BitAnd(a, b) ==
  IF a = 0 \/ b = 0 THEN 0
  ELSE (IF a % 2 = 1 /\ b % 2 = 1 THEN 1 ELSE 0) + 2 * BitAnd(a \div 2, b \div 2)

------------------------------------------------------------------------------
(* UTF-8 (String::from_utf8, String::from_utf8_lossy)                       *)

utf8_char_width(b) ==
  IF b < 128 THEN 1
  ELSE IF b \in 194..223 THEN 2
  ELSE IF b \in 224..239 THEN 3
  ELSE IF b \in 240..244 THEN 4
  ELSE 0

safe_get(s, i) == IF i <= Len(s) THEN s[i] ELSE 0
IsCont(b) == b \in 128..191

Second3(b, c) ==
  \/ b = 224 /\ c \in 160..191
  \/ b \in 225..236 /\ c \in 128..191
  \/ b = 237 /\ c \in 128..159
  \/ b \in 238..239 /\ c \in 128..191

Second4(b, c) ==
  \/ b = 240 /\ c \in 144..191
  \/ b \in 241..243 /\ c \in 128..191
  \/ b = 244 /\ c \in 128..143

\* The chunk starting at s[i]: a valid scalar value of `len` bytes, or an
\* invalid sequence of `len` bytes.
Utf8Chunk(s, i) ==
  LET b == s[i]
      w == utf8_char_width(b)
      V(n) == [valid |-> TRUE, len |-> n]
      I(n) == [valid |-> FALSE, len |-> n]
  IN CASE w = 1 -> V(1)
       [] w = 2 -> IF IsCont(safe_get(s, i + 1)) THEN V(2) ELSE I(1)
       [] w = 3 -> IF ~Second3(b, safe_get(s, i + 1)) THEN I(1)
                   ELSE IF ~IsCont(safe_get(s, i + 2)) THEN I(2)
                   ELSE V(3)
       [] w = 4 -> IF ~Second4(b, safe_get(s, i + 1)) THEN I(1)
                   ELSE IF ~IsCont(safe_get(s, i + 2)) THEN I(2)
                   ELSE IF ~IsCont(safe_get(s, i + 3)) THEN I(3)
                   ELSE V(4)
       [] OTHER -> I(1)

RECURSIVE Utf8ValidFrom(_, _)
Utf8ValidFrom(s, i) ==
  IF i > Len(s) THEN TRUE
  ELSE LET c == Utf8Chunk(s, i)
       IN c.valid /\ Utf8ValidFrom(s, i + c.len)

ReplacementChar == <<239, 191, 189>>

RECURSIVE Utf8LossyFrom(_, _)
Utf8LossyFrom(s, i) ==
  IF i > Len(s) THEN <<>>
  ELSE LET c == Utf8Chunk(s, i)
       IN (IF c.valid THEN SubSeq(s, i, i + c.len - 1) ELSE ReplacementChar)
            \o Utf8LossyFrom(s, i + c.len)

\* A String is modelled by its UTF-8 bytes.
from_utf8(s) == IF Utf8ValidFrom(s, 1) THEN Ok(s) ELSE Err("FromUtf8Error")
from_utf8_lossy(s) == Utf8LossyFrom(s, 1)

------------------------------------------------------------------------------
(* Shared helpers of both log modules                                       *)

\* bytes.iter().position(|&b| b == 0)
Position0(bytes) ==
  IF \E i \in 1..Len(bytes) : bytes[i] = 0
  THEN Some((CHOOSE i \in 1..Len(bytes) :
               bytes[i] = 0 /\ \A j \in 1..(i - 1) : bytes[j] # 0) - 1)
  ELSE None

\* Mutant: the terminating zero byte is kept in the name.
null_terminated_bytes_Inclusive(bytes) ==
  LET p == Position0(bytes)
  IN IF IsSome(p) THEN SubSeq(bytes, 1, p.val + 1) ELSE bytes

null_terminated_bytes(bytes) ==
  LET p == Position0(bytes)
  IN IF IsSome(p) THEN SubSeq(bytes, 1, p.val) ELSE bytes

null_terminated_string(bytes) ==
  LET r == from_utf8(null_terminated_bytes(bytes))
  IN IF IsOk(r) THEN Some(r.val) ELSE None

null_terminated_string_lossy(bytes) == from_utf8_lossy(null_terminated_bytes(bytes))

\* A u32 is held as its two 16-bit halves, hi * 2^16 + lo, since the model
\* checker's own integers are 32-bit signed.
U32(h, l) == [hi |-> h, lo |-> l]
U32Zero == U32(0, 0)

\* chrono's DateTime::<Utc>::from_timestamp(secs, 0) for secs >= 0: an instant,
\* identified by its number of seconds after the Unix epoch, or None past
\* DateTime::<Utc>::MAX_UTC (8210266876799 s = MaxChronoHi * 2^16 + MaxChronoLo).
MaxChronoHi == 125278730
MaxChronoLo == 27519
DateTime_from_timestamp(secs) ==
  IF secs.hi < MaxChronoHi \/ (secs.hi = MaxChronoHi /\ secs.lo <= MaxChronoLo)
  THEN Some([secs |-> secs, tz |-> "Utc"]) ELSE None

\* DateTime::with_timezone(&Local): the same instant in another zone.
with_timezone_Local(dt) == [secs |-> dt.secs, tz |-> "Local"]

MapLocal(o) == IF IsSome(o) THEN Some(with_timezone_Local(o.val)) ELSE None

\* Mutant: no zero sentinel, 0 is the epoch origin itself.
from_unix_epoch_NoSentinel(num_seconds) == DateTime_from_timestamp(num_seconds)

from_unix_epoch(num_seconds) ==
  IF num_seconds = U32Zero THEN None ELSE DateTime_from_timestamp(num_seconds)

\* Mutant: the error carries the whole data_info byte.
DataInfo_kind_FullByte(b) ==
  LET kind_num == Shr(b, 4)
  IN CASE kind_num = 0 -> Ok("SignedInteger")
       [] kind_num = 1 -> Ok("UnsignedInteger")
       [] kind_num = 2 -> Ok("Float")
       [] kind_num = 3 -> Ok("String")
       [] kind_num = 4 -> Ok("Bool")
       [] OTHER -> Err(b)

DataInfo_kind(b) ==
  LET kind_num == Shr(b, 4)
  IN CASE kind_num = 0 -> Ok("SignedInteger")
       [] kind_num = 1 -> Ok("UnsignedInteger")
       [] kind_num = 2 -> Ok("Float")
       [] kind_num = 3 -> Ok("String")
       [] kind_num = 4 -> Ok("Bool")
       [] OTHER -> Err(kind_num)

\* Mutant: the mask keeps the high nibble.
DataInfo_length_HighMask(b) == BitAnd(b, 240)

DataInfo_length(b) == BitAnd(b, 15)

------------------------------------------------------------------------------
(* byteview_ref! / byteview_owned! generated code                           *)

\* u32be field: four bytes, most significant first.
\* Mutant: least significant byte first.
u32le(b4) == U32(b4[4] * 256 + b4[3], b4[2] * 256 + b4[1])

u32be(b4) == U32(b4[1] * 256 + b4[2], b4[3] * 256 + b4[4])

\* <View>::split_slice(bytes): a view over the first `width` bytes and the
\* rest, or None when the slice is shorter than the record.
view_split_slice(s, width) ==
  IF s.len < width THEN None ELSE Some(SplitAt(s, width))

\* The bytes of the field at [off, off + w) of a view.
view_field(b, v, off, w) == SubSeq(Deref(b, v), off + 1, off + w)

bv_file_name_raw(b, v) == view_field(b, v, 0, NameLen)
bv_earliest_date_epoch(b, v) == u32be(view_field(b, v, NameLen, U32Len))
bv_latest_date_epoch(b, v) == u32be(view_field(b, v, NameLen + U32Len, U32Len))
bv_log_type_raw(b, v) == view_field(b, v, NameLen + 2 * U32Len, 1)[1]
bv_num_fields(b, v) == view_field(b, v, NameLen + 2 * U32Len + 1, 1)[1]

bv_name_raw(b, v) == view_field(b, v, 0, NameLen)
bv_data_info_raw(b, v) == view_field(b, v, NameLen, 1)[1]
bv_index(b, v) == view_field(b, v, NameLen + 1, 1)[1]

------------------------------------------------------------------------------
(* log_byteview.rs: accessors                                               *)

bv_file_name(b, v) == null_terminated_string(bv_file_name_raw(b, v))
bv_file_name_lossy(b, v) == null_terminated_string_lossy(bv_file_name_raw(b, v))
bv_earliest_date_utc(b, v) == from_unix_epoch(bv_earliest_date_epoch(b, v))
bv_earliest_date_local(b, v) == MapLocal(bv_earliest_date_utc(b, v))
bv_latest_date_utc(b, v) == from_unix_epoch(bv_latest_date_epoch(b, v))
bv_latest_date_local(b, v) == MapLocal(bv_latest_date_utc(b, v))

\* Mutant: an unknown type byte becomes System.
bv_log_type_Default(b, v) ==
  LET byte == bv_log_type_raw(b, v)
  IN CASE byte = 0 -> Ok("System")
       [] byte = 1 -> Ok("Comm")
       [] byte = 2 -> Ok("Debug")
       [] OTHER -> Ok("System")

\* Mutant: Comm and Debug are exchanged.
bv_log_type_Swapped(b, v) ==
  LET byte == bv_log_type_raw(b, v)
  IN CASE byte = 0 -> Ok("System")
       [] byte = 1 -> Ok("Debug")
       [] byte = 2 -> Ok("Comm")
       [] OTHER -> Err(byte)

bv_log_type(b, v) ==
  LET byte == bv_log_type_raw(b, v)
  IN CASE byte = 0 -> Ok("System")
       [] byte = 1 -> Ok("Comm")
       [] byte = 2 -> Ok("Debug")
       [] OTHER -> Err(byte)

bv_name(b, v) == null_terminated_string(bv_name_raw(b, v))
bv_name_lossy(b, v) == null_terminated_string_lossy(bv_name_raw(b, v))
bv_data_info(b, v) == bv_data_info_raw(b, v)

\* Everything main prints of a field and of a header.
bv_field_out(b, v) ==
  [name |-> bv_name(b, v),
   name_lossy |-> bv_name_lossy(b, v),
   kind |-> DataInfo_kind(bv_data_info(b, v)),
   length |-> DataInfo_length(bv_data_info(b, v)),
   index |-> bv_index(b, v)]

bv_header_out(b, start, fields) ==
  [file_name |-> bv_file_name(b, start),
   file_name_lossy |-> bv_file_name_lossy(b, start),
   earliest_utc |-> bv_earliest_date_utc(b, start),
   earliest_local |-> bv_earliest_date_local(b, start),
   latest_utc |-> bv_latest_date_utc(b, start),
   latest_local |-> bv_latest_date_local(b, start),
   log_type |-> bv_log_type(b, start),
   num_fields |-> bv_num_fields(b, start),
   fields |-> [i \in 1..Len(fields) |-> bv_field_out(b, fields[i])]]

------------------------------------------------------------------------------
(* log_zerocopy.rs: derived casts and accessors                             *)

\* big_endian::U32::get
RECURSIVE FromBeBytes(_)
FromBeBytes(bs) ==
  IF bs = <<>> THEN 0
  ELSE bs[Len(bs)] + 256 * FromBeBytes(SubSeq(bs, 1, Len(bs) - 1))

U32_get(b4) == U32(FromBeBytes(SubSeq(b4, 1, 2)), FromBeBytes(SubSeq(b4, 3, 4)))

\* #[repr(u8)] enum LogType { System = 0, Comm = 1, Debug = 2 }
LogType_is_bit_valid(byte) == byte \in {0, 1, 2}
LogType_of(byte) ==
  CASE byte = 0 -> "System" [] byte = 1 -> "Comm" [] byte = 2 -> "Debug"

\* The fields of a #[repr(C)], Unaligned struct lie at consecutive offsets.
zc_file_name_raw(b, r) == SubSeq(Deref(b, r), 1, NameLen)
zc_earliest_date_epoch(b, r) == SubSeq(Deref(b, r), NameLen + 1, NameLen + U32Len)
zc_latest_date_epoch(b, r) ==
  SubSeq(Deref(b, r), NameLen + U32Len + 1, NameLen + 2 * U32Len)
zc_log_type_raw(b, r) == Deref(b, r)[NameLen + 2 * U32Len + 1]
zc_log_type(b, r) == LogType_of(zc_log_type_raw(b, r))
zc_num_fields(b, r) == Deref(b, r)[NameLen + 2 * U32Len + 2]

zc_name_raw(b, r) == SubSeq(Deref(b, r), 1, NameLen)
zc_data_info(b, r) == Deref(b, r)[NameLen + 1]
zc_index(b, r) == Deref(b, r)[NameLen + 2]

\* HeaderStart::try_ref_from_prefix (derived TryFromBytes): the size check,
\* then the validity of every field; only LogType has invalid bytes.
HeaderStart_try_ref_from_prefix(b, s) ==
  IF s.len < HeaderStartNumBytes THEN Err([kind |-> "Size", src |-> s])
  ELSE LET sp == SplitAt(s, HeaderStartNumBytes)
       IN IF LogType_is_bit_valid(zc_log_type_raw(b, sp[1]))
          THEN Ok(sp)
          ELSE Err([kind |-> "Validity", src |-> s])

\* FieldDefinition::try_ref_from_prefix: every byte pattern is valid.
FieldDefinition_try_ref_from_prefix(b, s) ==
  IF s.len < FieldDefinitionNumBytes THEN Err([kind |-> "Size", src |-> s])
  ELSE Ok(SplitAt(s, FieldDefinitionNumBytes))

Timestamp_get_utc(b4) ==
  LET num_seconds == U32_get(b4)
  IN IF num_seconds = U32Zero THEN None ELSE DateTime_from_timestamp(num_seconds)

Timestamp_get_local(b4) == MapLocal(Timestamp_get_utc(b4))

zc_file_name(b, r) == null_terminated_string(zc_file_name_raw(b, r))
zc_file_name_lossy(b, r) == null_terminated_string_lossy(zc_file_name_raw(b, r))
zc_name(b, r) == null_terminated_string(zc_name_raw(b, r))
zc_name_lossy(b, r) == null_terminated_string_lossy(zc_name_raw(b, r))

zc_field_out(b, r) ==
  [name |-> zc_name(b, r),
   name_lossy |-> zc_name_lossy(b, r),
   kind |-> DataInfo_kind(zc_data_info(b, r)),
   length |-> DataInfo_length(zc_data_info(b, r)),
   index |-> zc_index(b, r)]

zc_header_out(b, start, fields) ==
  [file_name |-> zc_file_name(b, start),
   file_name_lossy |-> zc_file_name_lossy(b, start),
   earliest_utc |-> Timestamp_get_utc(zc_earliest_date_epoch(b, start)),
   earliest_local |-> Timestamp_get_local(zc_earliest_date_epoch(b, start)),
   latest_utc |-> Timestamp_get_utc(zc_latest_date_epoch(b, start)),
   latest_local |-> Timestamp_get_local(zc_latest_date_epoch(b, start)),
   log_type |-> zc_log_type(b, start),
   num_fields |-> zc_num_fields(b, start),
   fields |-> [i \in 1..Len(fields) |-> zc_field_out(b, fields[i])]]

------------------------------------------------------------------------------
(* tests/entry.rs                                                           *)

\* EntryHeaderRef::from_array(&bytes) borrows the array;
\* EntryHeaderOwned::from_array(bytes.to_owned()) owns a copy of it.
EntryHeaderRef_from_array(arr) == [borrowed |-> Slice(0, Len(arr))]
EntryHeaderOwned_from_array(arr) == [owned |-> arr]

RefBytes(arr, h) == Deref(arr, h.borrowed)
OwnedBytes(h) == h.owned

entry_index(bytes) == u32be(SubSeq(bytes, 1, U32Len))
entry_kind_raw(bytes) == bytes[U32Len + 1]
entry_name_raw(bytes) == SubSeq(bytes, U32Len + 3, U32Len + 2 + EntryNameLen)

EntryHeaderRef_kind(bytes) ==
  LET k == entry_kind_raw(bytes)
  IN CASE k = 0 -> Some("Foo") [] k = 1 -> Some("Bar") [] k = 2 -> Some("Baz")
       [] OTHER -> None

EntryHeaderRef_name(bytes) ==
  LET name == entry_name_raw(bytes)
      p == Position0(name)
  IN IF IsSome(p) THEN SubSeq(name, 1, p.val) ELSE name

EntryHeaderOwned_kind(bytes) ==
  LET k == entry_kind_raw(bytes)
  IN CASE k = 0 -> Some("Foo") [] k = 1 -> Some("Bar") [] k = 2 -> Some("Baz")
       [] OTHER -> None

EntryHeaderOwned_name(bytes) ==
  LET name == entry_name_raw(bytes)
      p == Position0(name)
  IN IF IsSome(p) THEN SubSeq(name, 1, p.val) ELSE name

------------------------------------------------------------------------------
(* Inputs: the buffers and entry arrays handed to the parsers               *)

PadTo(p, f, w) == p \o [i \in 1..(w - Len(p)) |-> f]

NameAlphabet == {0, 65, 195, 169, 255}
EpochAlphabet == {0, 1, 128, 255}

Prefixes == UNION {[1..m -> NameAlphabet] : m \in 0..MaxNameLen}
Names(w) == {PadTo(p, f, w) : p \in Prefixes, f \in {0, 65}}
Epochs == [1..U32Len -> EpochAlphabet] \cup {<<0, 0, 7, 1>>}

HeaderBytes(name, e, l, t, n) == name \o e \o l \o <<t, n>>
FieldBytes(name, di, idx) == name \o <<di, idx>>

SampleName == PadTo(<<115, 97, 109, 112, 108, 101, 46, 108, 111, 103>>, 0, NameLen)
SampleEarliest == <<101, 0, 0, 1>>
SampleLatest == <<130, 52, 86, 120>>
SampleField(j) == FieldBytes(PadTo(<<102, 48 + j>>, 0, NameLen), 16 * (j % 5) + j + 1, j)

RECURSIVE SampleFields(_)
SampleFields(k) == IF k = 0 THEN <<>> ELSE SampleFields(k - 1) \o SampleField(k - 1)

SampleHeader(t, n) == HeaderBytes(SampleName, SampleEarliest, SampleLatest, t, n)
SampleBuf == SampleHeader(0, 2) \o SampleFields(2)

\* b"\x00\x00\x07\x01\x02\x2AMy Field Name\x00\x00\x00"
MyFieldName == <<77, 121, 32, 70, 105, 101, 108, 100, 32, 78, 97, 109, 101>>
TestEntryBytes == <<0, 0, 7, 1, 2, 42>> \o PadTo(MyFieldName, 0, EntryNameLen)
EntryBytes(idx, k, name) == idx \o <<k, 42>> \o name

\* Headers with n declared and k complete records present, then r more bytes.
StructBufs ==
  {SampleHeader(t, n) \o SampleFields(k) \o [i \in 1..r |-> 238] :
     t \in {0, 1, 2, 7}, n \in (0..MaxFields) \cup {255},
     k \in 0..(MaxFields + 1), r \in {0, 33}}
ShortBufs == {SubSeq(SampleHeader(0, 1), 1, l) : l \in {0, 1, HeaderStartNumBytes - 1}}
DataInfoBufs ==
  {SampleHeader(1, 1) \o FieldBytes(SampleName, di, idx) : di \in Byte, idx \in {0, 255}}
EpochBufs ==
  {HeaderBytes(SampleName, e, SampleLatest, 2, 0) : e \in Epochs}
    \cup {HeaderBytes(SampleName, SampleEarliest, l, 2, 0) : l \in Epochs}
NameBufs ==
  {HeaderBytes(nm, SampleEarliest, SampleLatest, 0, 1) \o SampleFields(1) :
     nm \in Names(NameLen)}
    \cup {SampleHeader(0, 1) \o FieldBytes(nm, 52, 0) : nm \in Names(NameLen)}

\* Two records whose data_info bytes may differ in one nibble only.
PairDataInfos == {64, 79, 80, 95, 160, 175, 240, 255}
PairBufs ==
  {SampleHeader(0, 2) \o FieldBytes(SampleName, d1, 0) \o FieldBytes(SampleName, d2, 1) :
     d1 \in PairDataInfos, d2 \in PairDataInfos}

Buffers ==
  StructBufs \cup ShortBufs \cup DataInfoBufs \cup EpochBufs \cup NameBufs \cup PairBufs

Entries ==
  {EntryBytes(idx, 2, PadTo(MyFieldName, 0, EntryNameLen)) : idx \in Epochs}
    \cup {EntryBytes(<<0, 0, 7, 1>>, k, PadTo(MyFieldName, 0, EntryNameLen)) :
            k \in {0, 1, 2, 3, 255}}
    \cup {EntryBytes(<<0, 0, 7, 1>>, 2, nm) : nm \in Names(EntryNameLen)}

------------------------------------------------------------------------------
(* State                                                                    *)

Unset == [tag |-> "Unset"]
Panic == [tag |-> "Panic"]

ParseInit ==
  [bytes |-> Slice(0, 0), start |-> Unset, fields |-> <<>>,
   i |-> 0, n |-> 0, result |-> Unset, out |-> Unset]

Init ==
  /\ \/ buf \in Buffers /\ entry = TestEntryBytes
     \/ buf = SampleBuf /\ entry \in Entries
  /\ pc = "zc_call"
  /\ zc = ParseInit
  /\ bv = ParseInit
  /\ et = [ref |-> Unset, owned |-> Unset]

------------------------------------------------------------------------------
(* log_zerocopy.rs: Header::try_ref_from_prefix                             *)

\* let (start, rest_bytes) = HeaderStart::try_ref_from_prefix(bytes)?; and the
\* entry into start.fields_from_prefix(bytes)
ZC_HeaderStart ==
  /\ pc = "zc_call"
  /\ LET r == HeaderStart_try_ref_from_prefix(buf, Slice(0, Len(buf)))
     IN IF IsErr(r)
        THEN /\ zc' = [zc EXCEPT !.result = Err(r.err)]
             /\ pc' = "zc_ret"
        ELSE /\ zc' = [zc EXCEPT !.start = Some(r.val[1]), !.bytes = r.val[2],
                                 !.fields = <<>>, !.i = 0,
                                 !.n = zc_num_fields(buf, r.val[1])]
             /\ pc' = "zc_loop"
  /\ UNCHANGED <<buf, entry, bv, et>>

\* One iteration of `for _ in 0..self.num_fields`
ZC_FieldStep ==
  /\ pc = "zc_loop"
  /\ zc.i < zc.n
  /\ LET r == FieldDefinition_try_ref_from_prefix(buf, zc.bytes)
     IN IF IsErr(r)
        THEN /\ zc' = [zc EXCEPT !.result = Err(r.err)]
             /\ pc' = "zc_ret"
        ELSE /\ zc' = [zc EXCEPT !.fields = Append(@, r.val[1]),
                                 !.bytes = r.val[2], !.i = @ + 1]
             /\ pc' = "zc_loop"
  /\ UNCHANGED <<buf, entry, bv, et>>

\* Ok((fields, bytes)), then Ok((Header { start, fields }, bytes))
ZC_Return ==
  /\ pc = "zc_loop"
  /\ zc.i = zc.n
  /\ zc' = [zc EXCEPT !.result =
              Ok([start |-> zc.start.val, fields |-> zc.fields, rest |-> zc.bytes])]
  /\ pc' = "zc_ret"
  /\ UNCHANGED <<buf, entry, bv, et>>

\* main: every accessor of the parsed header, or the error
ZC_Print ==
  /\ pc = "zc_ret"
  /\ zc' = [zc EXCEPT !.out =
              IF IsOk(zc.result)
              THEN Some(zc_header_out(buf, zc.result.val.start, zc.result.val.fields))
              ELSE None]
  /\ pc' = "bv_call"
  /\ UNCHANGED <<buf, entry, bv, et>>

------------------------------------------------------------------------------
(* log_byteview.rs: Header::split_slice                                     *)

\* Mutant: the number of records is derived from the length of the buffer.
BV_HeaderStart_FromLength ==
  /\ pc = "bv_call"
  /\ LET r == view_split_slice(Slice(0, Len(buf)), HeaderStartNumBytes)
     IN IF ~IsSome(r)
        THEN /\ bv' = [bv EXCEPT !.result = Panic]
             /\ pc' = "panic"
        ELSE /\ bv' = [bv EXCEPT !.start = Some(r.val[1]), !.bytes = r.val[2],
                                 !.fields = <<>>, !.i = 0,
                                 !.n = r.val[2].len \div FieldDefinitionNumBytes]
             /\ pc' = "bv_loop"
  /\ UNCHANGED <<buf, entry, zc, et>>

\* let (start, bytes) = HeaderStart::split_slice(bytes).unwrap(); and the
\* evaluation of the range 0..start.num_fields()
BV_HeaderStart ==
  /\ pc = "bv_call"
  /\ LET r == view_split_slice(Slice(0, Len(buf)), HeaderStartNumBytes)
     IN IF ~IsSome(r)
        THEN /\ bv' = [bv EXCEPT !.result = Panic]
             /\ pc' = "panic"
        ELSE /\ bv' = [bv EXCEPT !.start = Some(r.val[1]), !.bytes = r.val[2],
                                 !.fields = <<>>, !.i = 0,
                                 !.n = bv_num_fields(buf, r.val[1])]
             /\ pc' = "bv_loop"
  /\ UNCHANGED <<buf, entry, zc, et>>

\* Mutant: the record is pushed but the cursor is not advanced.
BV_FieldStep_NoAdvance ==
  /\ pc = "bv_loop"
  /\ bv.i < bv.n
  /\ LET r == view_split_slice(bv.bytes, FieldDefinitionNumBytes)
     IN IF ~IsSome(r)
        THEN /\ bv' = [bv EXCEPT !.result = Panic]
             /\ pc' = "panic"
        ELSE /\ bv' = [bv EXCEPT !.fields = Append(@, r.val[1]), !.i = @ + 1]
             /\ pc' = "bv_loop"
  /\ UNCHANGED <<buf, entry, zc, et>>

\* let (field_def, rest_bytes) = FieldDefinition::split_slice(bytes).unwrap();
\* fields.push(field_def); bytes = rest_bytes;
BV_FieldStep ==
  /\ pc = "bv_loop"
  /\ bv.i < bv.n
  /\ LET r == view_split_slice(bv.bytes, FieldDefinitionNumBytes)
     IN IF ~IsSome(r)
        THEN /\ bv' = [bv EXCEPT !.result = Panic]
             /\ pc' = "panic"
        ELSE /\ bv' = [bv EXCEPT !.fields = Append(@, r.val[1]),
                                 !.bytes = r.val[2], !.i = @ + 1]
             /\ pc' = "bv_loop"
  /\ UNCHANGED <<buf, entry, zc, et>>

\* Some((Header { start, fields }, bytes))
BV_Return ==
  /\ pc = "bv_loop"
  /\ bv.i = bv.n
  /\ bv' = [bv EXCEPT !.result =
              Some([start |-> bv.start.val, fields |-> bv.fields, rest |-> bv.bytes])]
  /\ pc' = "bv_ret"
  /\ UNCHANGED <<buf, entry, zc, et>>

\* main: every accessor of the parsed header
BV_Print ==
  /\ pc = "bv_ret"
  /\ bv' = [bv EXCEPT !.out =
              Some(bv_header_out(buf, bv.result.val.start, bv.result.val.fields))]
  /\ pc' = "entry_ref"
  /\ UNCHANGED <<buf, entry, zc, et>>

------------------------------------------------------------------------------
(* tests/entry.rs: test_entry                                               *)

TestEntryRef ==
  /\ pc = "entry_ref"
  /\ LET entry_header == EntryHeaderRef_from_array(entry)
         bytes == RefBytes(entry, entry_header)
     IN et' = [et EXCEPT !.ref = Some([index |-> entry_index(bytes),
                                       kind |-> EntryHeaderRef_kind(bytes),
                                       name |-> EntryHeaderRef_name(bytes)])]
  /\ pc' = "entry_owned"
  /\ UNCHANGED <<buf, entry, zc, bv>>

TestEntryOwned ==
  /\ pc = "entry_owned"
  /\ LET entry_header == EntryHeaderOwned_from_array(entry)
         bytes == OwnedBytes(entry_header)
     IN et' = [et EXCEPT !.owned = Some([index |-> entry_index(bytes),
                                         kind |-> EntryHeaderOwned_kind(bytes),
                                         name |-> EntryHeaderOwned_name(bytes)])]
  /\ pc' = "done"
  /\ UNCHANGED <<buf, entry, zc, bv>>

Next ==
  \/ ZC_HeaderStart
  \/ ZC_FieldStep
  \/ ZC_Return
  \/ ZC_Print
  \/ BV_HeaderStart
  \/ BV_FieldStep
  \/ BV_Return
  \/ BV_Print
  \/ TestEntryRef
  \/ TestEntryOwned

Spec == Init /\ [][Next]_vars

------------------------------------------------------------------------------
(* Properties                                                               *)

\* The layout as section 6 of the specification states it, in plain numbers.
HasHeader(b) == Len(b) >= 42
DeclaredFields(b) == b[42]
TypeByte(b) == b[41]
ValidType(b) == b[41] \in {0, 1, 2}
RecordsPresent(b) == (Len(b) - 42) \div 34

BvCalled == bv.start.tag = "Some" \/ bv.result.tag # "Unset"
BvReturned == bv.result.tag = "Some"
ZcReturned == zc.result.tag # "Unset"
ZcOk == zc.result.tag = "Ok"

C1_WitnessZero ==
  /\ BvReturned /\ ZcOk
  /\ DeclaredFields(buf) = 0 /\ Len(buf) = 42
  /\ bv.result.val.fields = <<>> /\ bv.result.val.rest.len = 0

\* C2: with a valid header declaring n >= 1 fields but only n-1 complete
\* records after it, the composite parse returns a truncation error placed at
\* iteration n-1 (the unconsumed bytes start at record n-1); it does not panic
\* and does not return a shorter list as a success.
C2_TruncationReported ==
  (/\ HasHeader(buf) /\ ValidType(buf) /\ DeclaredFields(buf) >= 1
   /\ RecordsPresent(buf) = DeclaredFields(buf) - 1) =>
    /\ ZcReturned =>
         /\ zc.result.tag = "Err"
         /\ zc.result.err.kind = "Size"
         /\ zc.result.err.src.ptr = 42 + 34 * (DeclaredFields(buf) - 1)
    /\ bv.result.tag # "Some"
    /\ bv.result.tag # "Panic"
    /\ pc # "panic"

\* C7: parsing the fixed header from a buffer shorter than 42 bytes fails
\* with a truncation error returned to the caller in both forms; it never
\* panics and never yields a view.
C7_ShortBufferError ==
  ~HasHeader(buf) =>
    /\ zc.start.tag = "Unset" /\ bv.start.tag = "Unset"
    /\ ZcReturned => zc.result.tag = "Err" /\ zc.result.err.kind = "Size"
    /\ bv.result.tag # "Panic"
    /\ pc # "panic"

RECURSIVE ConcatViews(_, _)
ConcatViews(b, views) ==
  IF views = <<>> THEN <<>>
  ELSE Deref(b, Head(views)) \o ConcatViews(b, Tail(views))

LoopInvariant(p) ==
  /\ p.n = DeclaredFields(buf)
  /\ p.i <= p.n
  /\ Len(p.fields) = p.i
  /\ p.bytes = Slice(42 + 34 * p.i, Len(buf) - 42 - 34 * p.i)
  /\ p.start.val = Slice(0, 42)
  /\ \A j \in 1..Len(p.fields) : p.fields[j] = Slice(42 + 34 * (j - 1), 34)

Returned(h) ==
  /\ Len(h.fields) = DeclaredFields(buf)
  /\ h.rest = Slice(42 + 34 * DeclaredFields(buf),
                    Len(buf) - 42 - 34 * DeclaredFields(buf))
  /\ \A j \in 1..Len(h.fields) : h.fields[j] = Slice(42 + 34 * (j - 1), 34)
  /\ Deref(buf, h.start) \o ConcatViews(buf, h.fields) \o Deref(buf, h.rest) = buf

\* C10: after i successful iterations the list holds i views and the cursor
\* is at offset 42 + 34*i; on success view i covers [42+34*i, 42+34*(i+1)),
\* the remainder is the suffix from 42+34*n, header, fields and remainder
\* concatenate to the buffer, and the number of records is the header's
\* num_fields, whatever the number of bytes that follow.
C10_LoopInvariant ==
  /\ bv.start.tag = "Some" => LoopInvariant(bv)
  /\ zc.start.tag = "Some" => LoopInvariant(zc)
  /\ BvReturned => Returned(bv.result.val)
  /\ ZcOk => Returned(zc.result.val)

C10_Witness ==
  /\ BvReturned /\ ZcOk
  /\ DeclaredFields(buf) >= 2
  /\ RecordsPresent(buf) > DeclaredFields(buf)
  /\ Len(bv.result.val.fields) = DeclaredFields(buf)

BvPrinted == bv.out.tag = "Some"
ZcPrinted == zc.out.tag = "Some"

\* What every header accessor other than log_type returns.
OtherAccessors(o) ==
  <<o.file_name, o.file_name_lossy, o.earliest_utc, o.earliest_local,
    o.latest_utc, o.latest_local, o.num_fields>>

\* C3 as stated: with a type byte outside {0,1,2} in a buffer of at least 42
\* bytes, both strategies still construct the header view, decoding the log
\* type fails with exactly that byte, and the other accessors are unchanged.
C3_Original ==
  (HasHeader(buf) /\ ~ValidType(buf)) =>
    /\ BvCalled => bv.start = Some(Slice(0, 42))
    /\ BvPrinted =>
         /\ bv.out.val.log_type = Err(TypeByte(buf))
         /\ OtherAccessors(bv.out.val) =
              OtherAccessors(bv_header_out([buf EXCEPT ![41] = 0],
                                           bv.start.val, bv.fields))
    /\ ZcReturned => zc.start = Some(Slice(0, 42))
    /\ zc.out.tag # "Unset" => ZcPrinted

\* C3 (amended): with a type byte outside {0,1,2} in a buffer of at least 42
\* bytes, the byteview strategy still constructs the header view, log_type()
\* fails with exactly that byte and the other accessors return what they
\* return with a valid type byte; the zerocopy strategy fails the header cast
\* with a validity error and constructs no view.
C3_Amended ==
  (HasHeader(buf) /\ ~ValidType(buf)) =>
    /\ BvCalled => bv.start = Some(Slice(0, 42))
    /\ BvPrinted =>
         /\ bv.out.val.log_type = Err(TypeByte(buf))
         /\ OtherAccessors(bv.out.val) =
              OtherAccessors(bv_header_out([buf EXCEPT ![41] = 0],
                                           bv.start.val, bv.fields))
    /\ ZcReturned =>
         /\ zc.start.tag = "Unset"
         /\ zc.result.tag = "Err" /\ zc.result.err.kind = "Validity"
    /\ zc.out.tag # "Unset" => zc.out = None

C3_Witness ==
  /\ HasHeader(buf) /\ TypeByte(buf) = 7
  /\ BvPrinted /\ bv.out.val.log_type = Err(7)
  /\ zc.result.tag = "Err"

\* C4: for every valid buffer the byteview header and the zerocopy header
\* decode every field to the same value, and so do the borrowing and the
\* owning entry header.
C4_Equivalence ==
  /\ (BvPrinted /\ ZcPrinted) =>
       /\ OtherAccessors(bv.out.val) = OtherAccessors(zc.out.val)
       /\ bv.out.val.log_type = Ok(zc.out.val.log_type)
       /\ bv.out.val.fields = zc.out.val.fields
  /\ (et.ref.tag = "Some" /\ et.owned.tag = "Some") => et.ref = et.owned

C4_Witness ==
  /\ pc = "done"
  /\ BvPrinted /\ ZcPrinted
  /\ bv.out.val.num_fields >= 2
  /\ bv.out.val.log_type = Ok("Debug")

\* The 32-bit value of four bytes, as its 16-bit halves.
IsValueOf(v, b4) ==
  /\ v.hi \in 0..65535 /\ v.lo \in 0..65535
  /\ v.hi \div 256 = b4[1] /\ v.hi % 256 = b4[2]
  /\ v.lo \div 256 = b4[3] /\ v.lo % 256 = b4[4]

DecodedEpoch(b4, utc, local) ==
  /\ b4 = <<0, 0, 0, 0>> => utc = None /\ local = None
  /\ b4 # <<0, 0, 0, 0>> =>
       /\ utc.tag = "Some" /\ utc.val.tz = "Utc" /\ IsValueOf(utc.val.secs, b4)
       /\ local.tag = "Some" /\ local.val.tz = "Local"
       /\ local.val.secs = utc.val.secs
  /\ b4 = <<0, 0, 0, 1>> => utc.val.secs = [hi |-> 0, lo |-> 1]

DecodedEpochs(o) ==
  /\ DecodedEpoch(SubSeq(buf, 33, 36), o.earliest_utc, o.earliest_local)
  /\ DecodedEpoch(SubSeq(buf, 37, 40), o.latest_utc, o.latest_local)

\* C5: a timestamp of 0 is absent in the UTC and the local projection; every
\* other 32-bit value v is the instant v seconds after the Unix epoch, and
\* the local projection is present exactly when the UTC one is, at the same
\* instant.
C5_Timestamps ==
  /\ BvPrinted => DecodedEpochs(bv.out.val)
  /\ ZcPrinted => DecodedEpochs(zc.out.val)

C5_Witness ==
  /\ BvPrinted /\ ZcPrinted
  /\ SubSeq(buf, 33, 36) = <<0, 0, 0, 0>>
  /\ bv.out.val.earliest_local = None
  /\ buf[37] >= 128 /\ bv.out.val.latest_utc.tag = "Some"

\* The bytes before the first zero byte, or the whole array.
NamePrefix(arr) ==
  LET k == CHOOSE k \in 0..Len(arr) :
             /\ \A j \in 1..k : arr[j] # 0
             /\ k = Len(arr) \/ arr[k + 1] = 0
  IN SubSeq(arr, 1, k)

ExtractedName(arr, strict, lossy) ==
  LET prefix == NamePrefix(arr)
  IN /\ strict = IF Utf8ValidFrom(prefix, 1) THEN Some(prefix) ELSE None
     /\ lossy \in Seq(Byte)
     /\ Utf8ValidFrom(lossy, 1)
     /\ Utf8ValidFrom(prefix, 1) => lossy = prefix

ExtractedNames(o) ==
  /\ ExtractedName(SubSeq(buf, 1, 32), o.file_name, o.file_name_lossy)
  /\ \A j \in 1..Len(o.fields) :
       ExtractedName(SubSeq(buf, 42 + 34 * (j - 1) + 1, 42 + 34 * (j - 1) + 32),
                     o.fields[j].name, o.fields[j].name_lossy)

\* C6: name extraction returns the bytes before the first zero byte, or the
\* whole array when there is none; lossy extraction always succeeds (and is
\* the prefix itself when that is valid text); strict extraction is absent
\* exactly when the prefix is not valid text and is the prefix otherwise.
C6_NameExtraction ==
  /\ BvPrinted => ExtractedNames(bv.out.val)
  /\ ZcPrinted => ExtractedNames(zc.out.val)
  /\ et.ref.tag = "Some" => et.ref.val.name = NamePrefix(SubSeq(entry, 7, 22))
  /\ et.owned.tag = "Some" => et.owned.val.name = NamePrefix(SubSeq(entry, 7, 22))

C6_Witness ==
  /\ BvPrinted /\ ZcPrinted
  /\ \A j \in 1..32 : buf[j] # 0
  /\ bv.out.val.file_name = None
  /\ Len(bv.out.val.file_name_lossy) > 32

KindOfNibble(h) ==
  CASE h = 0 -> "SignedInteger"
    [] h = 1 -> "UnsignedInteger"
    [] h = 2 -> "Float"
    [] h = 3 -> "String"
    [] h = 4 -> "Bool"

DecodedDataInfo(o) ==
  \A j \in 1..Len(o.fields) :
    LET b == buf[42 + 34 * (j - 1) + 33]
    IN /\ o.fields[j].length = b % 16
       /\ b <= 79 => o.fields[j].kind = Ok(KindOfNibble(b \div 16))
       /\ b > 79 => o.fields[j].kind.tag = "Err"

\* C8: for every data_info byte b, length is b mod 16 and never fails; kind
\* succeeds exactly when b div 16 is in 0..4, mapping 0..4 to SignedInteger,
\* UnsignedInteger, Float, String, Bool, and fails otherwise; kind is a
\* function of the high nibble alone and length of the low nibble alone.
C8_DataInfo ==
  /\ BvPrinted => DecodedDataInfo(bv.out.val)
  /\ ZcPrinted => DecodedDataInfo(zc.out.val)

C8_Witness ==
  /\ BvPrinted /\ ZcPrinted
  /\ Len(bv.out.val.fields) = 1
  /\ buf[42 + 33] = 175
  /\ bv.out.val.fields[1].kind.tag = "Err"
  /\ zc.out.val.fields[1].length = 15

\* C9: a u32be field decodes bytes b0 b1 b2 b3 as the unsigned value
\* b0*2^24 + b1*2^16 + b2*2^8 + b3, without sign extension; 00 00 07 01 is
\* 1793, in the Ref and in the Owned entry header.
C9_U32be ==
  /\ et.ref.tag = "Some" =>
       /\ IsValueOf(et.ref.val.index, SubSeq(entry, 1, 4))
       /\ SubSeq(entry, 1, 4) = <<0, 0, 7, 1>> => et.ref.val.index = [hi |-> 0, lo |-> 1793]
  /\ et.owned.tag = "Some" =>
       /\ IsValueOf(et.owned.val.index, SubSeq(entry, 1, 4))
       /\ SubSeq(entry, 1, 4) = <<0, 0, 7, 1>> => et.owned.val.index = [hi |-> 0, lo |-> 1793]
  /\ (BvPrinted /\ bv.out.val.earliest_utc.tag = "Some") =>
       IsValueOf(bv.out.val.earliest_utc.val.secs, SubSeq(buf, 33, 36))

C9_Witness ==
  /\ pc = "done"
  /\ entry[1] >= 128 /\ entry[4] = 1
  /\ et.ref.val.index.hi >= 32768
  /\ et.owned.val.index.hi >= 32768

DataInfoByte(j) == buf[42 + 34 * (j - 1) + 33]

KindErrors(o) ==
  /\ \A j \in 1..Len(o.fields) :
       LET b == DataInfoByte(j)
       IN o.fields[j].kind.tag = "Err" =>
            /\ o.fields[j].kind.err = b \div 16
            /\ o.fields[j].kind.err \in 5..15
            /\ o.fields[j].kind.err # b
  /\ \A j, k \in 1..Len(o.fields) :
       (/\ o.fields[j].kind.tag = "Err" /\ o.fields[k].kind.tag = "Err"
        /\ DataInfoByte(j) \div 16 = DataInfoByte(k) \div 16) =>
         o.fields[j].kind = o.fields[k].kind

\* C11: when DataInfo::kind fails for a data_info byte b, the error value is
\* the kind nibble b div 16, a value in 5..15, not the byte b; two bytes that
\* differ only in their low nibble give the same error value.
C11_KindErrorIsNibble ==
  /\ BvPrinted => KindErrors(bv.out.val)
  /\ ZcPrinted => KindErrors(zc.out.val)

C11_Witness ==
  /\ BvPrinted /\ ZcPrinted
  /\ Len(bv.out.val.fields) = 2
  /\ DataInfoByte(1) = 160 /\ DataInfoByte(2) = 175
  /\ bv.out.val.fields[1].kind = [tag |-> "Err", err |-> 10]
  /\ bv.out.val.fields[2].kind = [tag |-> "Err", err |-> 10]
  /\ zc.out.val.fields[2].kind = [tag |-> "Err", err |-> 10]

====
